---- MODULE Spec2Model ----
(***************************************************************************)
(* Model of the mission architecture simulation engine                     *)
(* (backend/app/core/simulator.py): graph construction with validation,    *)
(* compromise propagation, mission scoring and the run_simulation          *)
(* orchestrator.                                                           *)
(*                                                                         *)
(* Strings that the code transforms (scenario_type) are sequences of       *)
(* one-character strings; identifiers that the code only compares are      *)
(* TLA+ strings.  Scores are kept in hundredths of a percent (10000 is     *)
(* 100.0), which is exactly what round(score, 2) can return.               *)
(***************************************************************************)
EXTENDS Integers, Sequences, FiniteSets, TLC

VARIABLES
    architecture,   \* the ArchitectureSchema handed to the constructor
    sim,            \* "new" (not constructed), "ready" (constructed), "failed"
    graph,          \* self.graph of the constructed simulator
    result,         \* what the last call returned or raised
    trav,           \* the traversal inside nx.descendants, step by step
    setOrder        \* the order in which this process iterates a set of IDs

vars == <<architecture, sim, graph, result, trav, setOrder>>

(***************************************************************************)
(* Bounds of the model.                                                    *)
(***************************************************************************)
MaxComps == 3        \* components of an architecture, construction runs
MaxBuildFlows == 2   \* flows of an architecture, construction runs
MaxFlows == 3        \* flows of an architecture, engine runs
MaxPad == 1          \* whitespace characters added on each side of a scenario
MaxTopN == 3         \* the largest top_n asked of the ranker, the default aside
MaxResultFlows == 2  \* flows of an architecture, scenario result runs
MaxRankFlows == 2    \* flows of an architecture, ranker runs
MaxSmallFleet == 5   \* components of a small fleet
MidFleet == 2000     \* components of a mid-size fleet
MaxFleet == 20000    \* components of the largest fleet

(***************************************************************************)
(* Values.                                                                 *)
(***************************************************************************)
None == "None"
CompIds == {"a", "b", "c"}
ForeignId == "zz"
EmptyFn == [x \in {} |-> x]
Origin == [x |-> 0, y |-> 0]

Min(x, y) == IF x <= y THEN x ELSE y
Max(x, y) == IF x >= y THEN x ELSE y
Abs(x) == IF x < 0 THEN -x ELSE x

RECURSIVE SeqsUpTo(_, _)
SeqsUpTo(S, n) ==
    IF n = 0 THEN {<<>>}
    ELSE LET shorter == SeqsUpTo(S, n - 1)
         IN  shorter \cup {Append(s, x) : s \in {t \in shorter : Len(t) = n - 1}, x \in S}

(***************************************************************************)
(* Input data: components and flows as the schema carries them.            *)
(***************************************************************************)
Component(i, n, t, c) ==
    [id |-> i, name |-> n, type |-> t, criticality |-> c, position |-> Origin]

CompA == Component("a", "Node-A", "Sensor", 7)
CompB == Component("b", "Node-B", "Compute", 8)
CompC == Component("c", "Node-C", "Control", 9)
CompA2 == Component("a", "Node-A2", "Storage", 9)

\* The flow at position i of a flow list: its id and metadata differ by position.
FlowIdAt == <<"f1", "f2", "f3", "f4", "f5">>
DataTypeAt == <<"telemetry", "commands", None, "video", "telemetry">>
CiaAt == <<"integrity", "availability", None, "confidentiality", "integrity">>
LatencyAt == <<"low", "high", None, "medium", "high">>

Flow(i, s, t) ==
    [id |-> FlowIdAt[i], source |-> s, target |-> t, data_type |-> DataTypeAt[i],
     cia_requirement |-> CiaAt[i], latency_sensitivity |-> LatencyAt[i]]

FlowLists(ids, n) ==
    {[i \in 1..Len(p) |-> Flow(i, p[i][1], p[i][2])] : p \in SeqsUpTo(ids \X ids, n)}

Architecture(cs, fs) == [id |-> 1, components |-> cs, flows |-> fs]

(***************************************************************************)
(* The directed graph (networkx.DiGraph): nodes and successors keep their  *)
(* insertion order, attributes are per node and per (source, target) pair. *)
(***************************************************************************)
EmptyGraph == [order |-> <<>>, attrs |-> EmptyFn, succ |-> EmptyFn, eattr |-> EmptyFn]

Nodes(g) == DOMAIN g.attrs
Edges(g) == DOMAIN g.eattr
HasNode(g, n) == n \in Nodes(g)
number_of_nodes(g) == Cardinality(Nodes(g))
number_of_edges(g) == Cardinality(Edges(g))
SeqHas(s, x) == \E i \in 1..Len(s) : s[i] = x

\* DiGraph.add_node(n, **attr): a new node is appended, an existing one keeps
\* its place and has its attributes overwritten.
add_node(g, n, a) ==
    [order |-> IF HasNode(g, n) THEN g.order ELSE Append(g.order, n),
     attrs |-> [m \in Nodes(g) \cup {n} |-> IF m = n THEN a ELSE g.attrs[m]],
     succ  |-> [m \in Nodes(g) \cup {n} |-> IF HasNode(g, m) THEN g.succ[m] ELSE <<>>],
     eattr |-> g.eattr]

\* dict.update: the keys of new are set, the other keys of old are kept.
dict_update(old, new) ==
    [k \in DOMAIN old \cup DOMAIN new |-> IF k \in DOMAIN new THEN new[k] ELSE old[k]]

\* An edge that exists keeps the attributes it was first given.
add_edge_first_write_wins(g, u, v, a) ==
    LET gu == IF HasNode(g, u) THEN g ELSE add_node(g, u, EmptyFn)
        gv == IF HasNode(gu, v) THEN gu ELSE add_node(gu, v, EmptyFn)
    IN  [order |-> gv.order,
         attrs |-> gv.attrs,
         succ  |-> [m \in Nodes(gv) |->
                      IF m = u /\ ~SeqHas(gv.succ[u], v)
                      THEN Append(gv.succ[u], v) ELSE gv.succ[m]],
         eattr |-> [e \in Edges(gv) \cup {<<u, v>>} |->
                      IF e \in Edges(gv) THEN gv.eattr[e] ELSE a]]

\* DiGraph.add_edge(u, v, **attr): endpoints that are no nodes yet are created
\* without attributes; an existing edge keeps its place and has its
\* attribute dict updated with attr (datadict.update(attr)).
add_edge(g, u, v, a) ==
    LET gu == IF HasNode(g, u) THEN g ELSE add_node(g, u, EmptyFn)
        gv == IF HasNode(gu, v) THEN gu ELSE add_node(gu, v, EmptyFn)
    IN  [order |-> gv.order,
         attrs |-> gv.attrs,
         succ  |-> [m \in Nodes(gv) |->
                      IF m = u /\ ~SeqHas(gv.succ[u], v)
                      THEN Append(gv.succ[u], v) ELSE gv.succ[m]],
         eattr |-> [e \in Edges(gv) \cup {<<u, v>>} |->
                      IF e # <<u, v>> THEN gv.eattr[e]
                      ELSE IF e \in Edges(gv) THEN dict_update(gv.eattr[e], a)
                      ELSE a]]

(***************************************************************************)
(* Errors.                                                                 *)
(***************************************************************************)
NoError == [exc |-> None]
SimulatorError(k, f, c) == [exc |-> "SimulatorError", kind |-> k, flow |-> f, component |-> c]

(***************************************************************************)
(* Graph Builder: MissionArchitectureSimulator.__init__ and _build_graph.  *)
(***************************************************************************)
NodeAttrs(c) ==
    [name |-> c.name, type |-> c.type, criticality |-> c.criticality,
     position |-> c.position]

EdgeAttrs(f) ==
    [flow_id |-> f.id, data_type |-> f.data_type,
     cia_requirement |-> f.cia_requirement,
     latency_sensitivity |-> f.latency_sensitivity]

component_ids(cs) == {cs[i].id : i \in 1..Len(cs)}

RECURSIVE add_components(_, _, _)
add_components(g, cs, i) ==
    IF i > Len(cs) THEN g
    ELSE add_components(add_node(g, cs[i].id, NodeAttrs(cs[i])), cs, i + 1)

\* The endpoint checks in the other order: target first.
check_flow_target_first(f, ids) ==
    IF f.target \notin ids
    THEN SimulatorError("unknown target", f.id, f.target)
    ELSE IF f.source \notin ids
         THEN SimulatorError("unknown source", f.id, f.source)
         ELSE NoError

\* The target check left out.
check_flow_source_only(f, ids) ==
    IF f.source \notin ids
    THEN SimulatorError("unknown source", f.id, f.source)
    ELSE NoError

\* The two endpoint checks made for one flow, source first.
check_flow(f, ids) ==
    IF f.source \notin ids
    THEN SimulatorError("unknown source", f.id, f.source)
    ELSE IF f.target \notin ids
         THEN SimulatorError("unknown target", f.id, f.target)
         ELSE NoError

\* The loop over the flows: the first flow that fails its check raises, and the
\* graph built so far is dropped with the frame.
RECURSIVE add_flows(_, _, _, _)
add_flows(g, fs, i, ids) ==
    IF i > Len(fs) THEN [graph |-> g, error |-> NoError]
    ELSE LET e == check_flow(fs[i], ids)
         IN  IF e.exc # None THEN [graph |-> g, error |-> e]
             ELSE add_flows(add_edge(g, fs[i].source, fs[i].target, EdgeAttrs(fs[i])),
                            fs, i + 1, ids)

build_graph(a) ==
    add_flows(add_components(EmptyGraph, a.components, 1), a.flows, 1,
              component_ids(a.components))

\* The constructor without its guard against an empty component list.
construct_unguarded(a) == build_graph(a)

\* __init__: [graph, error]; with an error there is no simulator, and graph is
\* what the constructor had built when it raised.
construct(a) ==
    IF Len(a.components) = 0
    THEN [graph |-> EmptyGraph, error |-> SimulatorError("empty architecture", None, None)]
    ELSE build_graph(a)

Construct ==
    /\ sim = "new"
    /\ LET r == construct(architecture)
       IN  /\ sim' = IF r.error.exc = None THEN "ready" ELSE "failed"
           /\ graph' = IF r.error.exc = None THEN r.graph ELSE EmptyGraph
           /\ result' = [op |-> "__init__", raised |-> r.error, built |-> r.graph]
    /\ UNCHANGED <<architecture, trav, setOrder>>

node_count(g) == number_of_nodes(g)
edge_count(g) == number_of_edges(g)

NodeCount ==
    /\ sim = "ready"
    /\ result' = [op |-> "node_count", raised |-> NoError, value |-> node_count(graph)]
    /\ UNCHANGED <<architecture, sim, graph, trav, setOrder>>

EdgeCount ==
    /\ sim = "ready"
    /\ result' = [op |-> "edge_count", raised |-> NoError, value |-> edge_count(graph)]
    /\ UNCHANGED <<architecture, sim, graph, trav, setOrder>>

\* get_component_metadata: [raised, value]; the value is dict(...), a copy of
\* the node's attribute dict.
ComponentNotFound(component_id) == SimulatorError("component not found", None, component_id)

get_component_metadata(g, component_id) ==
    IF ~HasNode(g, component_id)
    THEN [raised |-> ComponentNotFound(component_id), value |-> [returned |-> FALSE]]
    ELSE [raised |-> NoError, value |-> g.attrs[component_id]]

GetComponentMetadata ==
    /\ sim = "ready"
    /\ \E c \in CompIds \cup {ForeignId} :
         LET r == get_component_metadata(graph, c)
         IN  result' = [op |-> "get_component_metadata", arg |-> c, raised |-> r.raised,
                        value |-> r.value]
    /\ UNCHANGED <<architecture, sim, graph, trav, setOrder>>

(***************************************************************************)
(* Propagation Engine: propagate_compromise over nx.descendants.           *)
(***************************************************************************)
SeqToSet(s) == {s[i] : i \in 1..Len(s)}
SelectNotIn(s, S) == SelectSeq(s, LAMBDA x : x \notin S)

\* The successors of one node, in adjacency order (DiGraph.successors).
successors(g, n) == g.succ[n]

\* The breadth-first traversal with a visited set that nx.descendants runs:
\* the queue holds the nodes whose successors are still to be looked at.
RECURSIVE bfs_visit(_, _, _)
bfs_visit(g, queue, visited) ==
    IF queue = <<>> THEN visited
    ELSE LET new == SelectNotIn(successors(g, Head(queue)), visited)
         IN  bfs_visit(g, Tail(queue) \o new, visited \cup SeqToSet(new))

\* A traversal that stops at the direct successors.
descendants_one_hop(g, source) == SeqToSet(successors(g, source)) \ {source}

\* nx.descendants(G, source): every node reached from source, source excluded.
descendants(g, source) == bfs_visit(g, <<source>>, {source}) \ {source}

\* The start node added before the membership guard has had its say.
propagate_compromise_unguarded(g, compromised_node_id) ==
    (IF HasNode(g, compromised_node_id) THEN descendants(g, compromised_node_id) ELSE {})
        \cup {compromised_node_id}

\* The compromise reaches the direct successors only.
propagate_compromise_direct_only(g, compromised_node_id) ==
    IF ~HasNode(g, compromised_node_id) THEN {}
    ELSE SeqToSet(successors(g, compromised_node_id)) \cup {compromised_node_id}

propagate_compromise(g, compromised_node_id) ==
    IF ~HasNode(g, compromised_node_id) THEN {}
    ELSE descendants(g, compromised_node_id) \cup {compromised_node_id}

NodeInputs == CompIds \cup {ForeignId}

PropagateCompromise ==
    /\ sim = "ready"
    /\ \E v \in NodeInputs :
         result' = [op |-> "propagate_compromise", arg |-> v, raised |-> NoError,
                    value |-> propagate_compromise(graph, v)]
    /\ UNCHANGED <<architecture, sim, graph, trav, setOrder>>

(***************************************************************************)
(* The traversal of nx.descendants one step at a time (bfs_edges): the     *)
(* queue holds (parent, index of its next child); a step looks at one      *)
(* child of the parent at the head, or drops the parent when it has none   *)
(* left.  found is the sequence of children yielded.                       *)
(***************************************************************************)
bfs_start(source) ==
    [pc |-> "running", source |-> source, queue |-> <<[node |-> source, next |-> 1]>>,
     visited |-> {source}, found |-> <<>>]

\* The same step without the visited set.
bfs_step_no_visited(g, t) ==
    LET head == Head(t.queue)
        children == successors(g, head.node)
    IN  IF head.next > Len(children)
        THEN [t EXCEPT !.queue = Tail(t.queue)]
        ELSE LET child == children[head.next]
                 advanced == <<[head EXCEPT !.next = head.next + 1]>> \o Tail(t.queue)
             IN  [t EXCEPT !.queue = Append(advanced, [node |-> child, next |-> 1]),
                           !.found = Append(t.found, child)]

bfs_step(g, t) ==
    LET head == Head(t.queue)
        children == successors(g, head.node)
    IN  IF head.next > Len(children)
        THEN [t EXCEPT !.queue = Tail(t.queue)]
        ELSE LET child == children[head.next]
                 advanced == <<[head EXCEPT !.next = head.next + 1]>> \o Tail(t.queue)
             IN  IF child \in t.visited
                 THEN [t EXCEPT !.queue = advanced]
                 ELSE [t EXCEPT !.queue = Append(advanced, [node |-> child, next |-> 1]),
                                !.visited = t.visited \cup {child},
                                !.found = Append(t.found, child)]

\* propagate_compromise is entered: an ID that is no node returns at once.
TravCall ==
    /\ sim = "ready"
    /\ trav.pc # "running"
    /\ \E v \in NodeInputs :
         IF HasNode(graph, v)
         THEN /\ trav' = bfs_start(v)
              /\ result' = [op |-> None, raised |-> NoError]
         ELSE /\ trav' = [pc |-> "done", source |-> v, queue |-> <<>>, visited |-> {},
                          found |-> <<>>]
              /\ result' = [op |-> "propagate_compromise", arg |-> v, raised |-> NoError,
                            value |-> {}]
    /\ UNCHANGED <<architecture, sim, graph, setOrder>>

TravStep ==
    /\ trav.pc = "running"
    /\ trav.queue # <<>>
    /\ trav' = bfs_step(graph, trav)
    /\ UNCHANGED <<architecture, sim, graph, result, setOrder>>

\* The traversal is exhausted: descendants is the set of the children yielded,
\* and propagate_compromise returns it united with the start node.
TravReturn ==
    /\ trav.pc = "running"
    /\ trav.queue = <<>>
    /\ trav' = [trav EXCEPT !.pc = "done"]
    /\ result' = [op |-> "propagate_compromise", arg |-> trav.source, raised |-> NoError,
                  value |-> (SeqToSet(trav.found) \ {trav.source}) \cup {trav.source}]
    /\ UNCHANGED <<architecture, sim, graph, setOrder>>

(***************************************************************************)
(* Scoring Engine: calculate_mission_score.  A score is returned in        *)
(* hundredths of a percent.                                                *)
(***************************************************************************)
\* The quotient cut off instead of rounded.
RoundDiv_truncating(n, d) == n \div d

\* round(n / d, 0) for n >= 0, d > 0: to the nearest integer, an exact half to
\* the even neighbour (Python's round on an exactly representable value).
RoundDiv(n, d) ==
    LET q == n \div d
        r == n % d
    IN  IF 2 * r < d THEN q
        ELSE IF 2 * r > d THEN q + 1
        ELSE IF q % 2 = 0 THEN q ELSE q + 1

\* Only the affected IDs that are nodes of the graph are counted.
calculate_mission_score_known_only(g, affected_ids) ==
    LET total == number_of_nodes(g)
        healthy == Max(0, Min(total - Cardinality(affected_ids \cap Nodes(g)), total))
    IN  IF total = 0 THEN 0
        ELSE RoundDiv(healthy * 100 * 100, total)

\* The share of compromised components instead of the share of healthy ones.
calculate_mission_score_inverted(g, affected_ids) ==
    LET total == number_of_nodes(g)
        healthy == Max(0, Min(total - Cardinality(affected_ids), total))
    IN  IF total = 0 THEN 0
        ELSE RoundDiv((total - healthy) * 100 * 100, total)

\* The score rounded to one decimal place.
calculate_mission_score_one_decimal(g, affected_ids) ==
    LET total == number_of_nodes(g)
        healthy == Max(0, Min(total - Cardinality(affected_ids), total))
    IN  IF total = 0 THEN 0
        ELSE RoundDiv(healthy * 100 * 10, total) * 10

calculate_mission_score(g, affected_ids) ==
    LET total == number_of_nodes(g)
        healthy == Max(0, Min(total - Cardinality(affected_ids), total))
    IN  IF total = 0 THEN 0
        ELSE RoundDiv(healthy * 100 * 100, total)

IdSetInputs == SUBSET (CompIds \cup {ForeignId})

CalculateMissionScore ==
    /\ sim = "ready"
    /\ \E A \in IdSetInputs :
         result' = [op |-> "calculate_mission_score", arg |-> A, raised |-> NoError,
                    value |-> calculate_mission_score(graph, A)]
    /\ UNCHANGED <<architecture, sim, graph, trav, setOrder>>

(***************************************************************************)
(* Criticality Ranker: rank_criticality.                                   *)
(***************************************************************************)
\* The edges out of n counted instead of the edges into it.
in_degree_outgoing(g, n) == Cardinality({e \in Edges(g) : e[1] = n})

\* DiGraph.in_degree(n): the number of edges into n, a self-loop included.
in_degree(g, n) == Cardinality({e \in Edges(g) : e[2] = n})

\* One (composite_score, descendant_count, node_id) entry per node.
rank_entry(g, n) ==
    <<g.attrs[n].criticality + in_degree(g, n), Cardinality(descendants(g, n)), n>>

\* The sort key with the descendant count left out.
sort_key_score_only(e) == <<e[1], 0>>

\* key=lambda t: (t[0], t[1])
sort_key(e) == <<e[1], e[2]>>

\* The order of two keys, as tuples compare.
KeyGreater(x, y) == x[1] > y[1] \/ (x[1] = y[1] /\ x[2] > y[2])

\* list.sort(key=..., reverse=True): descending by key, and entries with equal
\* keys keep the order they had.  The entries of the greatest key come first,
\* then the sorted rest.
RECURSIVE sort_entries(_, _)
sort_entries(es, keys) ==
    IF keys = {} THEN <<>>
    ELSE LET top == CHOOSE k \in keys : \A j \in keys : ~KeyGreater(j, k)
         IN  SelectSeq(es, LAMBDA e : sort_key(e) = top) \o sort_entries(es, keys \ {top})

\* The flag set whenever some component is affected.
CriticalityRankEntry_any_affected(g, e, affected) ==
    [component_id |-> e[3],
     component_name |-> g.attrs[e[3]].name,
     component_type |-> g.attrs[e[3]].type,
     criticality_score |-> e[1],
     affected |-> affected # {}]

CriticalityRankEntry(g, e, affected) ==
    [component_id |-> e[3],
     component_name |-> g.attrs[e[3]].name,
     component_type |-> g.attrs[e[3]].type,
     criticality_score |-> e[1],
     affected |-> e[3] \in affected]

DefaultTopN == 10

\* An optional set of IDs: absent (None) or given.
Absent == [given |-> FALSE]
Some(S) == [given |-> TRUE, ids |-> S]

\* affected_ids or set()
or_empty(affected_ids) == IF affected_ids.given THEN affected_ids.ids ELSE {}

\* s[:k]: the first k entries, and for a negative k all but the last -k.
slice_to(s, k) ==
    IF k >= 0 THEN SubSeq(s, 1, Min(k, Len(s)))
    ELSE SubSeq(s, 1, Max(0, Len(s) + k))

\* The entries are cut to top_n before they are sorted.
rank_criticality_cut_before_sort(g, affected_ids, top_n) ==
    LET affected == or_empty(affected_ids)
        entries == slice_to([i \in 1..Len(g.order) |-> rank_entry(g, g.order[i])], top_n)
        kept == sort_entries(entries, {sort_key(entries[i]) : i \in 1..Len(entries)})
    IN  [i \in 1..Len(kept) |-> CriticalityRankEntry(g, kept[i], affected)]

\* The affected components are listed before the others.
rank_criticality_affected_first(g, affected_ids, top_n) ==
    LET affected == or_empty(affected_ids)
        entries == [i \in 1..Len(g.order) |-> rank_entry(g, g.order[i])]
        sorted_entries == sort_entries(entries, {sort_key(entries[i]) : i \in 1..Len(entries)})
        regrouped == SelectSeq(sorted_entries, LAMBDA e : e[3] \in affected)
                        \o SelectSeq(sorted_entries, LAMBDA e : e[3] \notin affected)
        kept == slice_to(regrouped, top_n)
    IN  [i \in 1..Len(kept) |-> CriticalityRankEntry(g, kept[i], affected)]

rank_criticality(g, affected_ids, top_n) ==
    LET affected == or_empty(affected_ids)
        entries == [i \in 1..Len(g.order) |-> rank_entry(g, g.order[i])]
        sorted_entries == sort_entries(entries, {sort_key(entries[i]) : i \in 1..Len(entries)})
        kept == slice_to(sorted_entries, top_n)
    IN  [i \in 1..Len(kept) |-> CriticalityRankEntry(g, kept[i], affected)]

\* The sets of IDs and the cut-offs handed to rank_criticality: no set, the
\* empty set, sets of nodes and of IDs that are no nodes; cut-offs below, at
\* and above the number of nodes, the default, and a negative one.
RankIdInputs ==
    {Absent} \cup {Some(S) : S \in {{}, {"b", "c"}, {"a", ForeignId}}}
TopNInputs == (-1..MaxTopN) \cup {DefaultTopN}

RankCriticality ==
    /\ sim = "ready"
    /\ \E A \in RankIdInputs, n \in TopNInputs :
         result' = [op |-> "rank_criticality", arg |-> [affected_ids |-> A, top_n |-> n],
                    raised |-> NoError, value |-> rank_criticality(graph, A, n)]
    /\ UNCHANGED <<architecture, sim, graph, trav, setOrder>>

(***************************************************************************)
(* Narrative Builder: _build_attack_path and _build_explanation.  A line   *)
(* of the path is the record of what its text is formatted from; node and  *)
(* source are the IDs behind the names in the text.                        *)
(***************************************************************************)
DirectStep(g, target_id) ==
    [step |-> 1, kind |-> "directly compromised", type |-> g.attrs[target_id].type,
     name |-> g.attrs[target_id].name, node |-> target_id]

\* The step names the node it is about as the node the data came from.
PropagationStep_from_itself(g, step, successor, current) ==
    [step |-> step, kind |-> "receives corrupted data", type |-> g.attrs[successor].type,
     name |-> g.attrs[successor].name, from |-> g.attrs[successor].name,
     node |-> successor, source |-> successor]

PropagationStep(g, step, successor, current) ==
    [step |-> step, kind |-> "receives corrupted data", type |-> g.attrs[successor].type,
     name |-> g.attrs[successor].name, from |-> g.attrs[current].name,
     node |-> successor, source |-> current]

SummaryStep(step, n) ==
    [step |-> step, kind |-> "mission objective degraded", count |-> n]

\* The for loop over the successors of current, from the i-th on: b is
\* [path, step, visited, queue].
RECURSIVE visit_successors(_, _, _, _, _)
visit_successors(g, affected_ids, current, i, b) ==
    LET succs == successors(g, current)
    IN  IF i > Len(succs) THEN b
        ELSE IF succs[i] \notin b.visited /\ succs[i] \in affected_ids
        THEN visit_successors(g, affected_ids, current, i + 1,
                 [path |-> Append(b.path, PropagationStep(g, b.step, succs[i], current)),
                  step |-> b.step + 1,
                  visited |-> b.visited \cup {succs[i]},
                  queue |-> Append(b.queue, succs[i])])
        ELSE visit_successors(g, affected_ids, current, i + 1, b)

\* The while loop over the queue.
RECURSIVE walk_queue(_, _, _)
walk_queue(g, affected_ids, b) ==
    IF b.queue = <<>> THEN b
    ELSE walk_queue(g, affected_ids,
             visit_successors(g, affected_ids, Head(b.queue), 1,
                              [b EXCEPT !.queue = Tail(b.queue)]))

\* The walk started with nothing marked as visited.
build_attack_path_target_unvisited(g, target_id, affected_ids) ==
    LET b == walk_queue(g, affected_ids,
                        [path |-> <<DirectStep(g, target_id)>>, step |-> 2,
                         visited |-> {}, queue |-> <<target_id>>])
    IN  IF Cardinality(affected_ids) > 1
        THEN Append(b.path, SummaryStep(b.step, Cardinality(affected_ids)))
        ELSE b.path

\* The summary line appended whatever the number of affected components.
build_attack_path_summary_always(g, target_id, affected_ids) ==
    LET b == walk_queue(g, affected_ids,
                        [path |-> <<DirectStep(g, target_id)>>, step |-> 2,
                         visited |-> {target_id}, queue |-> <<target_id>>])
    IN  Append(b.path, SummaryStep(b.step, Cardinality(affected_ids)))

build_attack_path(g, target_id, affected_ids) ==
    LET b == walk_queue(g, affected_ids,
                        [path |-> <<DirectStep(g, target_id)>>, step |-> 2,
                         visited |-> {target_id}, queue |-> <<target_id>>])
    IN  IF Cardinality(affected_ids) > 1
        THEN Append(b.path, SummaryStep(b.step, Cardinality(affected_ids)))
        ELSE b.path

\* A score formatted with {:.1f}: tenths of a percent from hundredths.
FormatTenths(x) == RoundDiv(x, 10)

build_explanation(g, scenario_type, target_id, affected_ids, baseline_score, compromised_score) ==
    [text |-> "Node compromise on",
     target_name |-> g.attrs[target_id].name,
     propagated_to |-> Cardinality(affected_ids \ {target_id}),
     from_score |-> FormatTenths(baseline_score),
     to_score |-> FormatTenths(compromised_score),
     points |-> FormatTenths(Abs(baseline_score - compromised_score))]

(***************************************************************************)
(* Orchestrator: run_simulation and _run_node_compromise.                  *)
(***************************************************************************)
UpperLetters == <<"A", "B", "C", "D", "E", "F", "G", "H", "I", "J", "K", "L", "M",
                  "N", "O", "P", "Q", "R", "S", "T", "U", "V", "W", "X", "Y", "Z">>
LowerLetters == <<"a", "b", "c", "d", "e", "f", "g", "h", "i", "j", "k", "l", "m",
                  "n", "o", "p", "q", "r", "s", "t", "u", "v", "w", "x", "y", "z">>
Whitespace == {" ", "\t", "\n", "\r"}
\* The characters in code point order.
CharOrder == <<"\t", "\n", "\r", " ">> \o UpperLetters \o <<"_">> \o LowerLetters

IndexIn(s, x) == CHOOSE i \in 1..Len(s) : s[i] = x

\* str.lower()
lower_char(c) == IF SeqHas(UpperLetters, c) THEN LowerLetters[IndexIn(UpperLetters, c)] ELSE c
lower(s) == [i \in 1..Len(s) |-> lower_char(s[i])]

\* str.strip()
RECURSIVE lstrip(_)
lstrip(s) == IF s # <<>> /\ Head(s) \in Whitespace THEN lstrip(Tail(s)) ELSE s
RECURSIVE rstrip(_)
rstrip(s) ==
    IF s # <<>> /\ s[Len(s)] \in Whitespace THEN rstrip(SubSeq(s, 1, Len(s) - 1)) ELSE s
strip(s) == rstrip(lstrip(s))

\* sorted() of a set of strings
RECURSIVE str_leq(_, _)
str_leq(x, y) ==
    IF x = <<>> THEN TRUE
    ELSE IF y = <<>> THEN FALSE
    ELSE IF Head(x) = Head(y) THEN str_leq(Tail(x), Tail(y))
    ELSE IndexIn(CharOrder, Head(x)) < IndexIn(CharOrder, Head(y))
RECURSIVE sorted(_)
sorted(S) ==
    IF S = {} THEN <<>>
    ELSE LET m == CHOOSE x \in S : \A y \in S : str_leq(x, y)
         IN  <<m>> \o sorted(S \ {m})

node_compromise == <<"n", "o", "d", "e", "_", "c", "o", "m", "p", "r", "o", "m", "i", "s", "e">>
SUPPORTED_SCENARIOS == {node_compromise}

UnknownScenario(scenario_type) ==
    [exc |-> "SimulatorError", kind |-> "unknown scenario", scenario |-> scenario_type,
     supported |-> sorted(SUPPORTED_SCENARIOS)]
TargetNotFound(target_id) == SimulatorError("target not found", None, target_id)
NotImplemented(scenario_type) ==
    [exc |-> "SimulatorError", kind |-> "not implemented", scenario |-> scenario_type]

\* list(s) of a set of IDs: the members in this process's iteration order.
list_of_set(S, order) == SelectSeq(order, LAMBDA x : x \in S)

\* SimulationResultSchema(...); scores is <<baseline, compromised, delta>>.
NodeCompromiseResult(a, target_id, scores, ids, names, attack_path, explanation, ranking) ==
    [architecture_id |-> a.id,
     scenario_type |-> node_compromise,
     target_component_id |-> target_id,
     baseline_score |-> scores[1],
     compromised_score |-> scores[2],
     score_delta |-> scores[3],
     affected_components |-> ids,
     affected_component_names |-> names,
     attack_path |-> attack_path,
     explanation |-> explanation,
     criticality_ranking |-> ranking]

\* The names of the IDs of a list that are nodes: the comprehension over
\* affected_ids with its "if nid in self.graph" filter.
names_of(g, ids) ==
    LET kept == SelectSeq(ids, LAMBDA nid : HasNode(g, nid))
    IN  [i \in 1..Len(kept) |-> g.attrs[kept[i]].name]

\* The delta taken as baseline minus compromised.
run_node_compromise_delta_reversed(g, a, order, target_id) ==
    LET affected_ids == propagate_compromise(g, target_id)
        baseline_score == calculate_mission_score(g, {})
        compromised_score == calculate_mission_score(g, affected_ids)
    IN  NodeCompromiseResult(a, target_id,
            <<baseline_score, compromised_score, baseline_score - compromised_score>>,
            list_of_set(affected_ids, order),
            names_of(g, list_of_set(affected_ids, order)),
            build_attack_path(g, target_id, affected_ids),
            build_explanation(g, node_compromise, target_id, affected_ids,
                              baseline_score, compromised_score),
            rank_criticality(g, Some(affected_ids), DefaultTopN))

\* The names listed in the order of the graph's nodes.
run_node_compromise_names_in_node_order(g, a, order, target_id) ==
    LET affected_ids == propagate_compromise(g, target_id)
        baseline_score == calculate_mission_score(g, {})
        compromised_score == calculate_mission_score(g, affected_ids)
    IN  NodeCompromiseResult(a, target_id,
            <<baseline_score, compromised_score, compromised_score - baseline_score>>,
            list_of_set(affected_ids, order),
            names_of(g, list_of_set(affected_ids, g.order)),
            build_attack_path(g, target_id, affected_ids),
            build_explanation(g, node_compromise, target_id, affected_ids,
                              baseline_score, compromised_score),
            rank_criticality(g, Some(affected_ids), DefaultTopN))

\* The IDs listed target first, then as the attack path discovers them.
run_node_compromise_discovery_order(g, a, order, target_id) ==
    LET affected_ids == propagate_compromise(g, target_id)
        baseline_score == calculate_mission_score(g, {})
        compromised_score == calculate_mission_score(g, affected_ids)
        attack_path == build_attack_path(g, target_id, affected_ids)
        steps == SelectSeq(attack_path, LAMBDA l : l.kind # "mission objective degraded")
        discovered == [i \in 1..Len(steps) |-> steps[i].node]
    IN  NodeCompromiseResult(a, target_id,
            <<baseline_score, compromised_score, compromised_score - baseline_score>>,
            discovered,
            names_of(g, discovered),
            attack_path,
            build_explanation(g, node_compromise, target_id, affected_ids,
                              baseline_score, compromised_score),
            rank_criticality(g, Some(affected_ids), DefaultTopN))

\* _run_node_compromise; order is the order in which the set affected_ids is
\* iterated, by the names comprehension and by list(affected_ids) alike.
run_node_compromise(g, a, order, target_id) ==
    LET affected_ids == propagate_compromise(g, target_id)
        baseline_score == calculate_mission_score(g, {})
        compromised_score == calculate_mission_score(g, affected_ids)
        score_delta == compromised_score - baseline_score
        attack_path == build_attack_path(g, target_id, affected_ids)
        explanation == build_explanation(g, node_compromise, target_id, affected_ids,
                                         baseline_score, compromised_score)
        affected_names == names_of(g, list_of_set(affected_ids, order))
        criticality_ranking == rank_criticality(g, Some(affected_ids), DefaultTopN)
    IN  NodeCompromiseResult(a, target_id,
            <<baseline_score, compromised_score, score_delta>>,
            list_of_set(affected_ids, order), affected_names, attack_path, explanation,
            criticality_ranking)

\* The engine methods _run_node_compromise calls, in call order.
NodeCompromiseCalls ==
    <<"propagate_compromise", "calculate_mission_score", "calculate_mission_score",
      "_build_attack_path", "_build_explanation", "rank_criticality">>

NoValue == [returned |-> FALSE]
Raise(e) == [raised |-> e, value |-> NoValue, calls |-> <<>>]

normalize_no_lower(scenario_type) == strip(scenario_type)

\* scenario_type.lower().strip()
normalize(scenario_type) == strip(lower(scenario_type))

\* The target is looked up before the scenario is.
run_simulation_target_first(g, a, order, scenario_type, target_component_id) ==
    LET normalized == normalize(scenario_type)
    IN  IF ~HasNode(g, target_component_id)
        THEN Raise(TargetNotFound(target_component_id))
        ELSE IF normalized \notin SUPPORTED_SCENARIOS
        THEN Raise(UnknownScenario(normalized))
        ELSE IF normalized = node_compromise
        THEN [raised |-> NoError,
              value |-> run_node_compromise(g, a, order, target_component_id),
              calls |-> NodeCompromiseCalls]
        ELSE Raise(NotImplemented(normalized))

\* The target is not looked up: _run_node_compromise is entered with any
\* target, and for one that is no node the KeyError of self.graph.nodes[target_id]
\* in _build_attack_path comes out.
run_simulation_target_unchecked(g, a, order, scenario_type, target_component_id) ==
    LET normalized == normalize(scenario_type)
    IN  IF normalized \notin SUPPORTED_SCENARIOS
        THEN Raise(UnknownScenario(normalized))
        ELSE IF normalized = node_compromise
        THEN IF HasNode(g, target_component_id)
             THEN [raised |-> NoError,
                   value |-> run_node_compromise(g, a, order, target_component_id),
                   calls |-> NodeCompromiseCalls]
             ELSE [raised |-> [exc |-> "KeyError", key |-> target_component_id],
                   value |-> NoValue,
                   calls |-> SubSeq(NodeCompromiseCalls, 1, 4)]
        ELSE Raise(NotImplemented(normalized))

\* run_simulation: [raised, value, calls], calls being the engine methods that
\* were entered.
run_simulation(g, a, order, scenario_type, target_component_id) ==
    LET normalized == normalize(scenario_type)
    IN  IF normalized \notin SUPPORTED_SCENARIOS
        THEN Raise(UnknownScenario(normalized))
        ELSE IF ~HasNode(g, target_component_id)
        THEN Raise(TargetNotFound(target_component_id))
        ELSE IF normalized = node_compromise
        THEN [raised |-> NoError,
              value |-> run_node_compromise(g, a, order, target_component_id),
              calls |-> NodeCompromiseCalls]
        ELSE Raise(NotImplemented(normalized))

\* The scenario strings handed in: a word, lower case, upper case or
\* capitalised, with up to MaxPad blanks before it and line ends after it.
link_degradation == <<"l", "i", "n", "k", "_", "d", "e", "g", "r", "a", "d", "a", "t", "i", "o", "n">>
node_space_compromise == <<"n", "o", "d", "e", " ", "c", "o", "m", "p", "r", "o", "m", "i", "s", "e">>
ScenarioWords == {node_compromise, link_degradation, node_space_compromise}

upper_char(c) == IF SeqHas(LowerLetters, c) THEN UpperLetters[IndexIn(LowerLetters, c)] ELSE c
upper(s) == [i \in 1..Len(s) |-> upper_char(s[i])]
capitalize(s) == [i \in 1..Len(s) |-> IF i = 1 THEN upper_char(s[i]) ELSE s[i]]
Repeat(c, n) == [i \in 1..n |-> c]

ScenarioInputs ==
    {Repeat(" ", l) \o w \o Repeat("\n", r) :
        w \in UNION {{x, upper(x), capitalize(x)} : x \in ScenarioWords},
        l \in 0..MaxPad, r \in 0..MaxPad}

\* A result once returned is kept and handed out again to the next call,
\* whatever that call asks for.
RunSimulation_reusing_last_result ==
    /\ sim = "ready"
    /\ \E s \in ScenarioInputs, t \in NodeInputs :
         LET r == IF result.op = "run_simulation" /\ result.raised.exc = None
                  THEN [raised |-> result.raised, value |-> result.value, calls |-> <<>>]
                  ELSE run_simulation(graph, architecture, setOrder, s, t)
         IN  result' = [op |-> "run_simulation",
                        arg |-> [scenario_type |-> s, target_component_id |-> t],
                        raised |-> r.raised, value |-> r.value, calls |-> r.calls]
    /\ UNCHANGED <<architecture, sim, graph, trav, setOrder>>

\* The scenario played out on the graph itself: the affected components are
\* taken out of self.graph once the result is made.
RunSimulation_removing_affected ==
    /\ sim = "ready"
    /\ \E s \in ScenarioInputs, t \in NodeInputs :
         LET r == run_simulation(graph, architecture, setOrder, s, t)
             gone == IF r.raised.exc = None THEN SeqToSet(r.value.affected_components) ELSE {}
         IN  /\ result' = [op |-> "run_simulation",
                           arg |-> [scenario_type |-> s, target_component_id |-> t],
                           raised |-> r.raised, value |-> r.value, calls |-> r.calls]
             /\ graph' = [order |-> SelectNotIn(graph.order, gone),
                          attrs |-> [n \in Nodes(graph) \ gone |-> graph.attrs[n]],
                          succ |-> [n \in Nodes(graph) \ gone |-> SelectNotIn(graph.succ[n], gone)],
                          eattr |-> [e \in {x \in Edges(graph) : x[1] \notin gone /\ x[2] \notin gone}
                                       |-> graph.eattr[e]]]
    /\ UNCHANGED <<architecture, sim, trav, setOrder>>

RunSimulation ==
    /\ sim = "ready"
    /\ \E s \in ScenarioInputs, t \in NodeInputs :
         LET r == run_simulation(graph, architecture, setOrder, s, t)
         IN  result' = [op |-> "run_simulation",
                        arg |-> [scenario_type |-> s, target_component_id |-> t],
                        raised |-> r.raised, value |-> r.value, calls |-> r.calls]
    /\ UNCHANGED <<architecture, sim, graph, trav, setOrder>>

\* run_simulation called with the scenario string "node_compromise".
RunNodeCompromise ==
    /\ sim = "ready"
    /\ \E t \in NodeInputs :
         LET r == run_simulation(graph, architecture, setOrder, node_compromise, t)
         IN  result' = [op |-> "run_simulation",
                        arg |-> [scenario_type |-> node_compromise, target_component_id |-> t],
                        raised |-> r.raised, value |-> r.value, calls |-> r.calls]
    /\ UNCHANGED <<architecture, sim, graph, trav, setOrder>>

(***************************************************************************)
(* HTTP boundary: simulate_architecture, the handler of                    *)
(* POST /architectures/{id}/simulate.  A response is its status code with  *)
(* either the detail of the HTTPException or the body returned.            *)
(***************************************************************************)
\* _get_architecture_stub: the fixed chain Sensor-1 -> Compute-1 -> Control-1
\* under the ID asked for.
get_architecture_stub(architecture_id) ==
    [id |-> architecture_id,
     components |->
        <<[id |-> "sensor-1", name |-> "Sensor-1", type |-> "Sensor", criticality |-> 7,
           position |-> [x |-> 100, y |-> 100]],
          [id |-> "compute-1", name |-> "Compute-1", type |-> "Compute", criticality |-> 8,
           position |-> [x |-> 300, y |-> 100]],
          [id |-> "control-1", name |-> "Control-1", type |-> "Control", criticality |-> 9,
           position |-> [x |-> 500, y |-> 100]]>>,
     flows |->
        <<[id |-> "flow-1", source |-> "sensor-1", target |-> "compute-1", data_type |-> None,
           cia_requirement |-> "integrity", latency_sensitivity |-> None],
          [id |-> "flow-2", source |-> "compute-1", target |-> "control-1", data_type |-> None,
           cia_requirement |-> "availability", latency_sensitivity |-> None]>>]

HTTP_200_OK == 200
HTTP_422_UNPROCESSABLE_ENTITY == 422
HTTP_500_INTERNAL_SERVER_ERROR == 500
UnexpectedErrorDetail == "An unexpected error occurred during simulation."

HTTPException(status_code, detail) == [status |-> status_code, detail |-> detail]
Returned200(body) == [status |-> HTTP_200_OK, body |-> body]

\* An exception of the runtime that is no SimulatorError (a MemoryError, a
\* RecursionError), raised on entry to the constructor or to run_simulation,
\* or none at all.
NoFault == [at |-> None]
Faults ==
    {NoFault} \cup {[at |-> p, exc |-> x] : p \in {"__init__", "run_simulation"},
                                          x \in {"MemoryError", "RecursionError"}}

\* The body of the try block: the constructor, then run_simulation on the
\* simulator it made; [raised, value, calls].
try_simulation(a, order, scenario_type, target_component_id, fault) ==
    IF fault.at = "__init__" THEN Raise([exc |-> fault.exc])
    ELSE LET simulator == construct(a)
         IN  IF simulator.error.exc # None THEN Raise(simulator.error)
             ELSE IF fault.at = "run_simulation" THEN Raise([exc |-> fault.exc])
             ELSE run_simulation(simulator.graph, a, order, scenario_type,
                                 target_component_id)

\* The handler with its two except clauses in the other order: the clause for
\* Exception catches the SimulatorError too.
simulate_architecture_catch_all_first(a, order, scenario_type, target_component_id, fault) ==
    LET r == try_simulation(a, order, scenario_type, target_component_id, fault)
    IN  IF r.raised.exc # None
        THEN HTTPException(HTTP_500_INTERNAL_SERVER_ERROR, UnexpectedErrorDetail)
        ELSE Returned200(r.value)

\* simulate_architecture on the architecture a that was loaded; the detail of
\* the 422 is str(exc), modelled as the error itself.
simulate_architecture(a, order, scenario_type, target_component_id, fault) ==
    LET r == try_simulation(a, order, scenario_type, target_component_id, fault)
    IN  IF r.raised.exc = "SimulatorError"
        THEN HTTPException(HTTP_422_UNPROCESSABLE_ENTITY, r.raised)
        ELSE IF r.raised.exc # None
        THEN HTTPException(HTTP_500_INTERNAL_SERVER_ERROR, UnexpectedErrorDetail)
        ELSE Returned200(r.value)

\* The requests: a supported scenario in two casings and an unsupported one,
\* on targets of the stub, of the fixtures, and on one that is nowhere a
\* component.
RequestScenarios == {node_compromise, upper(node_compromise), link_degradation}
RequestTargets == NodeInputs \cup {"sensor-1", "control-1"}

\* One request served: the architecture is the one the lookup returns, the
\* simulator lives for the request only.
SimulateArchitecture ==
    /\ sim = "new"
    /\ \E s \in RequestScenarios, t \in RequestTargets, f \in Faults :
         result' = [op |-> "simulate_architecture",
                    arg |-> [scenario_type |-> s, target_component_id |-> t, fault |-> f],
                    raised |-> NoError,
                    response |-> simulate_architecture(architecture, setOrder, s, t, f)]
    /\ UNCHANGED <<architecture, sim, graph, trav, setOrder>>

(***************************************************************************)
(* Specifications.                                                         *)
(***************************************************************************)
NoResult == [op |-> None, raised |-> NoError]
Idle == [pc |-> "idle"]
IdOrder == <<"a", "b", "c">>

InitWith(archs, orders) ==
    /\ architecture \in archs
    /\ setOrder \in orders
    /\ sim = "new"
    /\ graph = EmptyGraph
    /\ result = NoResult
    /\ trav = Idle

\* Construction over every component list (duplicate IDs, no component at all)
\* and every flow list (undeclared endpoints, repeated pairs) within the bounds.
BuildArchs ==
    {Architecture(cs, fs) : cs \in SeqsUpTo({CompA, CompB, CompC, CompA2}, MaxComps),
                            fs \in FlowLists(CompIds, MaxBuildFlows)}

InitBuild == InitWith(BuildArchs, {IdOrder})
NextBuild == Construct \/ NodeCount \/ EdgeCount
SpecBuild == InitBuild /\ [][NextBuild]_vars

\* The engine on the architectures over the first components of <<a, b, c>>
\* and every flow list over the three IDs: chains, branches, cycles, self-loops,
\* repeated pairs, and flows whose endpoint is not declared.
RECURSIVE Prefixes(_)
Prefixes(s) == IF s = <<>> THEN {<<>>} ELSE {s} \cup Prefixes(SubSeq(s, 1, Len(s) - 1))

EngineArchs ==
    {Architecture(cs, fs) : cs \in Prefixes(<<CompA, CompB, CompC>>),
                            fs \in FlowLists(CompIds, MaxFlows)}

InitEngine == InitWith(EngineArchs, {IdOrder})
NextEngine == Construct \/ PropagateCompromise \/ CalculateMissionScore
SpecEngine == InitEngine /\ [][NextEngine]_vars

\* The traversal of propagate_compromise step by step, run to completion: the
\* call is synchronous, so a step that can be taken is taken.
InitTrav == InitWith(EngineArchs, {IdOrder})
NextTrav == Construct \/ TravCall \/ TravStep \/ TravReturn
SpecTrav ==
    /\ InitTrav
    /\ [][NextTrav]_vars
    /\ WF_vars(TravStep)
    /\ WF_vars(TravReturn)

\* The orchestrator on a chain, a cycle, a single node, a branch with a
\* repeated pair, and two architectures that do not construct.
Flows(ps) == [i \in 1..Len(ps) |-> Flow(i, ps[i][1], ps[i][2])]
LinearArch == Architecture(<<CompA, CompB, CompC>>, Flows(<<<<"a", "b">>, <<"b", "c">>>>))
CycleArch ==
    Architecture(<<CompA, CompB, CompC>>, Flows(<<<<"a", "b">>, <<"b", "c">>, <<"c", "a">>>>))
SingleArch == Architecture(<<CompA>>, <<>>)
BranchArch ==
    Architecture(<<CompC, CompA, CompB>>, Flows(<<<<"c", "b">>, <<"c", "a">>, <<"c", "b">>>>))
EmptyArch == Architecture(<<>>, Flows(<<<<"a", "b">>>>))
GhostArch == Architecture(<<CompA, CompB>>, Flows(<<<<"a", "b">>, <<"b", "c">>>>))
ScenarioArchs == {LinearArch, CycleArch, SingleArch, BranchArch, EmptyArch, GhostArch}

InitScenario == InitWith(ScenarioArchs, {IdOrder})
NextScenario == Construct \/ RunSimulation
SpecScenario == InitScenario /\ [][NextScenario]_vars

\* The orders in which a process may iterate a set of IDs: string hashes are
\* seeded per process, so every order of the IDs can come out.
Orderings(S) == {p \in SeqsUpTo(S, Cardinality(S)) : SeqToSet(p) = S}
SetOrders == Orderings(CompIds)

\* The node_compromise scenario on the fixture architectures, on a triangle
\* (c is a successor of both a and b) and on every
\* architecture over the first components of <<a, b, c>> with up to
\* MaxResultFlows flows, under every iteration order.
TriangleArch ==
    Architecture(<<CompA, CompB, CompC>>, Flows(<<<<"b", "c">>, <<"a", "b">>, <<"a", "c">>>>))
ResultArchs ==
    ScenarioArchs \cup {TriangleArch} \cup
    {Architecture(cs, fs) : cs \in Prefixes(<<CompA, CompB, CompC>>),
                            fs \in FlowLists(CompIds, MaxResultFlows)}

InitResult == InitWith(ResultArchs, SetOrders)
NextResult == Construct \/ RunNodeCompromise
SpecResult == InitResult /\ [][NextResult]_vars

\* The ranker on the first components of <<a, b, c>> and on <<c, b, a>>, with
\* up to MaxRankFlows flows.
RankArchs ==
    {Architecture(cs, fs) :
        cs \in Prefixes(<<CompA, CompB, CompC>>) \cup {<<CompC, CompB, CompA>>},
        fs \in FlowLists(CompIds, MaxRankFlows)}

InitRank == InitWith(RankArchs, {IdOrder})
NextRank == Construct \/ RankCriticality \/ RunNodeCompromise
SpecRank == InitRank /\ [][NextRank]_vars

\* Large architectures: the components of core followed by relay components
\* with numbered IDs, n components in all.
Relay(i) == Component(ToString(i), ToString(i), "Relay", 5)
FleetComponent(core, i) == IF i <= Len(core) THEN core[i] ELSE Relay(i)
FleetArch(core, n, fs) == Architecture([i \in 1..n |-> FleetComponent(core, i)], fs)

\* The graph _build_graph returns for an architecture of components with
\* distinct IDs, written down without the loops: the nodes in component order,
\* each with its attributes, the successors of a node in the order of the
\* first flow to each, and the attributes of the last flow over each pair.
FirstFlowTo(fs, x, y) == CHOOSE i \in 1..Len(fs) :
    /\ fs[i].source = x /\ fs[i].target = y
    /\ \A j \in 1..(i - 1) : ~(fs[j].source = x /\ fs[j].target = y)
LastFlowOver(fs, e) == CHOOSE i \in 1..Len(fs) :
    /\ <<fs[i].source, fs[i].target>> = e
    /\ \A j \in (i + 1)..Len(fs) : <<fs[j].source, fs[j].target>> # e
RECURSIVE SortedBy(_, _, _)
SortedBy(S, fs, x) ==
    IF S = {} THEN <<>>
    ELSE LET y == CHOOSE y \in S : \A z \in S : FirstFlowTo(fs, x, y) <= FirstFlowTo(fs, x, z)
         IN  <<y>> \o SortedBy(S \ {y}, fs, x)
FleetGraph(core, n, fs) ==
    LET core_ids == {core[i].id : i \in 1..Len(core)}
        ids == core_ids \cup {ToString(i) : i \in (Len(core) + 1)..n}
        pairs == {<<fs[i].source, fs[i].target>> : i \in 1..Len(fs)}
    IN  [order |-> [i \in 1..n |-> FleetComponent(core, i).id],
         attrs |-> [x \in ids |->
                      IF x \in core_ids
                      THEN NodeAttrs(core[CHOOSE i \in 1..Len(core) : core[i].id = x])
                      ELSE NodeAttrs(Component(x, x, "Relay", 5))],
         succ  |-> [x \in ids |-> SortedBy({e[2] : e \in {d \in pairs : d[1] = x}}, fs, x)],
         eattr |-> [e \in pairs |-> EdgeAttrs(fs[LastFlowOver(fs, e)])]]

\* Fleets of 3 to MaxSmallFleet components around a, b, c, over every list of
\* up to one flow and the fixture flow lists, and fleets of MidFleet, of
\* MaxFleet - 1 and of MaxFleet components around c alone, without flows.
Fleets ==
    {<<n, <<CompA, CompB, CompC>>, fs>> :
        n \in 3..MaxSmallFleet,
        fs \in FlowLists(CompIds, 1) \cup
               {LinearArch.flows, CycleArch.flows, BranchArch.flows}}
    \cup {<<n, <<CompC>>, <<>>>> : n \in {MidFleet} \cup (MaxFleet - 1)..MaxFleet}

\* The state after construction.
InitScale ==
    /\ \E f \in Fleets :
         /\ architecture = FleetArch(f[2], f[1], f[3])
         /\ graph = FleetGraph(f[2], f[1], f[3])
    /\ setOrder = IdOrder
    /\ sim = "ready"
    /\ result = [op |-> "__init__", raised |-> NoError]
    /\ trav = Idle
NextScale == RunNodeCompromise
SpecScale == InitScale /\ [][NextScale]_vars

\* Every public method of a constructed simulator, in any order and number,
\* on the fixture architectures.
InitFrame == InitWith(ScenarioArchs, {IdOrder})
NextFrame ==
    \/ Construct
    \/ RunSimulation
    \/ PropagateCompromise
    \/ CalculateMissionScore
    \/ RankCriticality
    \/ GetComponentMetadata
    \/ NodeCount
    \/ EdgeCount
SpecFrame == InitFrame /\ [][NextFrame]_vars

\* The handler on what the lookup returns: the stub's chain under an ID, and,
\* for the database lookup the stub stands in for, the fixture architectures,
\* two of which do not construct.
ArchitectureIds == 1..2
StubOrder == IdOrder \o <<"sensor-1", "compute-1", "control-1">>
HttpArchs == {get_architecture_stub(i) : i \in ArchitectureIds} \cup ScenarioArchs

InitHttp == InitWith(HttpArchs, {StubOrder})
NextHttp == SimulateArchitecture
SpecHttp == InitHttp /\ [][NextHttp]_vars

(***************************************************************************)
(* Properties of the propagation engine (SpecEngine).                      *)
(***************************************************************************)
\* w is reached from v by one or more edges, each followed from its source
\* to its target.
ForwardPath(g, p) ==
    /\ Len(p) >= 2
    /\ \A i \in 1..(Len(p) - 1) : <<p[i], p[i + 1]>> \in Edges(g)

ForwardReachable(g, v) ==
    {w \in Nodes(g) :
        \E p \in SeqsUpTo(Nodes(g), number_of_nodes(g) + 1) :
            ForwardPath(g, p) /\ p[1] = v /\ p[Len(p)] = w}

Returned(op) == sim = "ready" /\ result.op = op /\ result.raised.exc = None

\* C1: for a node v of the graph, propagate_compromise(v) is exactly {v} united
\* with the nodes reachable from v by one or more forward edges.
C1_PropagateIsForwardClosure ==
    (Returned("propagate_compromise") /\ HasNode(graph, result.arg)) =>
        /\ result.arg \in result.value
        /\ result.value = {result.arg} \cup ForwardReachable(graph, result.arg)

\* C1 witness: propagate_compromise("b") returned {b, c} on a graph where a is
\* upstream of b: the downstream node is in, the upstream node is out.
C1_Witness ==
    /\ Returned("propagate_compromise")
    /\ result.arg = "b"
    /\ <<"a", "b">> \in Edges(graph)
    /\ <<"b", "c">> \in Edges(graph)
    /\ result.value = {"b", "c"}

\* C3: propagate_compromise of an ID that is no node of the graph returns the
\* empty set, raises nothing, and the graph is still the graph that was built.
C3_UnknownNodeGivesEmptySet ==
    (sim = "ready" /\ result.op = "propagate_compromise" /\ ~HasNode(graph, result.arg)) =>
        /\ result.value = {}
        /\ result.raised = NoError
        /\ graph = construct(architecture).graph

\* C3 witness: the call was made with an ID that is no node of a graph that has
\* nodes and edges.
C3_Witness ==
    /\ Returned("propagate_compromise")
    /\ ~HasNode(graph, result.arg)
    /\ Edges(graph) # {}
    /\ result.value = {}

(***************************************************************************)
(* Properties of the scoring engine (SpecEngine).                          *)
(***************************************************************************)
\* C4: with N >= 1 nodes, calculate_mission_score(A) is ((N - min(|A|, N)) / N)
\* * 100 rounded to two decimals, whatever the members of A are, and lies in
\* [0, 100].  In hundredths: the returned value r is the nearest integer to
\* (N - min(|A|, N)) * 10000 / N.
C4_ScoreIsClampedShare ==
    Returned("calculate_mission_score") =>
        LET N == number_of_nodes(graph)
            k == Cardinality(result.arg)
            exactTimesN == (N - Min(k, N)) * 10000
        IN  /\ N >= 1
            /\ result.value = RoundDiv(exactTimesN, N)
            /\ 2 * Abs(result.value * N - exactTimesN) <= N
            /\ result.value >= 0
            /\ result.value <= 10000

\* C4 witness: a set of two IDs, one of them no node of the three-node graph,
\* scored 33.33.
C4_Witness ==
    /\ Returned("calculate_mission_score")
    /\ number_of_nodes(graph) = 3
    /\ ForeignId \in result.arg
    /\ Cardinality(result.arg) = 2
    /\ result.value = 3333

\* C5: the score of the empty set is 100.0 and the score of the set of all
\* node IDs is 0.0.
C5_ScoreEndpoints ==
    Returned("calculate_mission_score") =>
        /\ result.arg = {} => result.value = 10000
        /\ result.arg = Nodes(graph) => result.value = 0

\* C5 witness: the full node set of a three-node graph scored 0.0.
C5_Witness ==
    /\ Returned("calculate_mission_score")
    /\ number_of_nodes(graph) = 3
    /\ result.arg = Nodes(graph)
    /\ result.value = 0

(***************************************************************************)
(* Properties of the graph builder (SpecBuild; C8 under SpecEngine, where  *)
(* scores are computed).                                                   *)
(***************************************************************************)
Declared == component_ids(architecture.components)

Dangling(f) == f.source \notin Declared \/ f.target \notin Declared

DanglingAt == {i \in 1..Len(architecture.flows) : Dangling(architecture.flows[i])}

FirstDangling == CHOOSE i \in DanglingAt : \A j \in DanglingAt : i <= j

\* The error the claim expects for the first dangling flow.
DanglingError ==
    LET f == architecture.flows[FirstDangling]
    IN  IF f.source \notin Declared
        THEN SimulatorError("unknown source", f.id, f.source)
        ELSE SimulatorError("unknown target", f.id, f.target)

Constructed == sim # "new"

\* C6 as stated: whenever some flow has an undeclared endpoint, construction
\* fails, yields no simulator, and the error names the first such flow and its
\* missing endpoint, as unknown source if its source is undeclared and
\* otherwise as unknown target.
C6_Original ==
    (Constructed /\ DanglingAt # {}) =>
        /\ sim = "failed"
        /\ graph = EmptyGraph
        /\ result.op = "__init__"
        /\ result.raised = DanglingError

\* C6 amended: construction always fails with a SimulatorError and yields no
\* simulator; when the architecture has at least one component the error is
\* the one of the first dangling flow, and with no component it is the
\* empty-architecture error.
C6_DanglingFlowFailsConstruction ==
    (Constructed /\ DanglingAt # {}) =>
        /\ sim = "failed"
        /\ graph = EmptyGraph
        /\ result.op = "__init__"
        /\ result.raised.exc = "SimulatorError"
        /\ Len(architecture.components) > 0 => result.raised = DanglingError
        /\ Len(architecture.components) = 0 => result.raised.kind = "empty architecture"

\* C6 witness: the first flow is sound, the second has a declared source and
\* an undeclared target, and construction failed naming f2 and that target.
C6_Witness ==
    /\ sim = "failed"
    /\ Len(architecture.flows) = 2
    /\ ~Dangling(architecture.flows[1])
    /\ architecture.flows[2].source \in Declared
    /\ architecture.flows[2].target \notin Declared
    /\ result.raised = SimulatorError("unknown target", "f2", architecture.flows[2].target)

\* C7: in every state of a constructed simulator the node set is the set of
\* declared component IDs, no edge has an undeclared endpoint, and node_count()
\* is the number of distinct component IDs.
C7_NodesAreDeclaredComponents ==
    sim = "ready" =>
        /\ Nodes(graph) = Declared
        /\ \A e \in Edges(graph) : e[1] \in Declared /\ e[2] \in Declared
        /\ node_count(graph) = Cardinality(Declared)
        /\ result.op = "node_count" => result.value = Cardinality(Declared)

\* C7 witness: node_count() returned 2 for three components, two of which
\* share an ID, on a graph with an edge.
C7_Witness ==
    /\ sim = "ready"
    /\ result.op = "node_count"
    /\ Len(architecture.components) = 3
    /\ result.value = 2
    /\ Edges(graph) # {}

\* C8: with zero components construction fails with the empty-architecture
\* error, whatever the flows are, before a node or an edge was created; no
\* constructed simulator has a zero-node graph, so no score is computed on one.
C8_EmptyArchitectureRejected ==
    /\ (Constructed /\ Len(architecture.components) = 0) =>
          /\ sim = "failed"
          /\ result.raised = SimulatorError("empty architecture", None, None)
          /\ result.built = EmptyGraph
    /\ sim = "ready" => number_of_nodes(graph) >= 1
    /\ result.op = "calculate_mission_score" => number_of_nodes(graph) >= 1

\* C8 witness: construction failed on no components and a non-empty flow list.
C8_Witness ==
    /\ sim = "failed"
    /\ Len(architecture.components) = 0
    /\ Len(architecture.flows) > 0
    /\ result.raised.kind = "empty architecture"

(***************************************************************************)
(* Termination of the traversal (SpecTrav).                                *)
(***************************************************************************)
NoDuplicates(s) == \A i, j \in 1..Len(s) : s[i] = s[j] => i = j

Cycle3 == {<<"a", "b">>, <<"b", "c">>, <<"c", "a">>}

\* C2: on every graph, cycles and self-loops included, a traversal that was
\* started ends; when it has ended the result is the start node with the nodes
\* reachable from it, each of them found exactly once; on the cycle
\* a -> b -> c -> a the result for a is {a, b, c}.
C2_TraversalTerminates ==
    /\ [](trav.pc = "running" => <>(trav.pc = "done"))
    /\ [](trav.pc = "running" =>
            /\ NoDuplicates(trav.found)
            /\ trav.source \notin SeqToSet(trav.found))
    /\ [](trav.pc = "done" =>
            /\ NoDuplicates(trav.found)
            /\ result.value = propagate_compromise(graph, trav.source)
            /\ HasNode(graph, trav.source) =>
                 /\ SeqToSet(trav.found) = ForwardReachable(graph, trav.source) \ {trav.source}
                 /\ result.value = {trav.source} \cup ForwardReachable(graph, trav.source)
            /\ (Edges(graph) = Cycle3 /\ trav.source = "a") => result.value = {"a", "b", "c"})

\* C2 witness: the traversal from a has ended on the cycle a -> b -> c -> a
\* with {a, b, c}.
C2_Witness ==
    /\ trav.pc = "done"
    /\ Edges(graph) = Cycle3
    /\ trav.source = "a"
    /\ result.value = {"a", "b", "c"}

(***************************************************************************)
(* Properties of the orchestrator's scenario check (SpecScenario).         *)
(***************************************************************************)
AllWhitespace(s) == \A i \in 1..Len(s) : s[i] \in Whitespace

SameLetter(c, d) ==
    \/ c = d
    \/ \E i \in 1..Len(UpperLetters) :
          {c, d} = {UpperLetters[i], LowerLetters[i]}

\* x[i..j] and y[k..l] have the same length and differ in letter case at most.
SameUpToCase(x, y) ==
    /\ Len(x) = Len(y)
    /\ \A i \in 1..Len(x) : SameLetter(x[i], y[i])

\* s and t differ only in letter case and in leading and trailing whitespace:
\* each is whitespace, a middle part, whitespace, and the middle parts are the
\* same up to case.
DifferOnlyInCaseAndPadding(s, t) ==
    \E i \in 1..(Len(s) + 1) :
        /\ AllWhitespace(SubSeq(s, 1, i - 1))
        /\ \E j \in (i - 1)..Len(s) :
              /\ AllWhitespace(SubSeq(s, j + 1, Len(s)))
              /\ \E k \in 1..(Len(t) + 1) :
                    /\ AllWhitespace(SubSeq(t, 1, k - 1))
                    /\ \E l \in (k - 1)..Len(t) :
                          /\ l - k = j - i
                          /\ AllWhitespace(SubSeq(t, l + 1, Len(t)))
                          /\ SameUpToCase(SubSeq(s, i, j), SubSeq(t, k, l))

Outcome(r) == [raised |-> r.raised, value |-> r.value, calls |-> r.calls]

\* C9: the outcome of run_simulation(s, t) is the outcome of
\* run_simulation(s2, t) for every s2 that differs from s only in letter case
\* and leading or trailing whitespace; a result echoes scenario_type
\* "node_compromise".
C9_ScenarioCaseAndPaddingIgnored ==
    (sim = "ready" /\ result.op = "run_simulation") =>
        /\ \A s2 \in ScenarioInputs :
              DifferOnlyInCaseAndPadding(result.arg.scenario_type, s2) =>
                  Outcome(result) =
                      run_simulation(graph, architecture, setOrder, s2,
                                     result.arg.target_component_id)
        /\ result.raised.exc = None => result.value.scenario_type = node_compromise

\* C9 witness: run_simulation(" NODE_COMPROMISE\n", "a") returned a result.
C9_Witness ==
    /\ sim = "ready"
    /\ result.op = "run_simulation"
    /\ result.arg.scenario_type = <<" ">> \o upper(node_compromise) \o <<"\n">>
    /\ result.arg.target_component_id = "a"
    /\ result.raised.exc = None
    /\ result.value.scenario_type = node_compromise
    /\ Len(result.value.affected_components) = 3

\* The scenario is supported once case and padding are set aside.
NamesSupportedScenario(s) ==
    \E w \in SUPPORTED_SCENARIOS : DifferOnlyInCaseAndPadding(s, w)

\* C10: run_simulation with a scenario that is not a supported one raises the
\* unknown-scenario SimulatorError, which lists the supported scenarios,
\* whether or not the target is a node, and enters no engine method.
C10_UnknownScenarioRejectedFirst ==
    (sim = "ready" /\ result.op = "run_simulation"
        /\ ~NamesSupportedScenario(result.arg.scenario_type)) =>
        /\ result.raised.exc = "SimulatorError"
        /\ result.raised.kind = "unknown scenario"
        /\ result.raised.supported = <<node_compromise>>
        /\ result.value = NoValue
        /\ result.calls = <<>>

\* C10 witness: an unsupported scenario and a target that is no node gave the
\* unknown-scenario error.
C10_Witness ==
    /\ sim = "ready"
    /\ result.op = "run_simulation"
    /\ result.arg.scenario_type = upper(link_degradation)
    /\ ~HasNode(graph, result.arg.target_component_id)
    /\ result.raised.kind = "unknown scenario"

(***************************************************************************)
(* Properties of the target check (SpecScenario).                          *)
(***************************************************************************)
Simulated == sim = "ready" /\ result.op = "run_simulation"

\* C11: run_simulation with a supported scenario and a target that is no node
\* raises the target-not-found SimulatorError and enters no engine method; the
\* per-scenario logic is entered only with a target that is a node, and every
\* returned result has a non-empty affected list that contains the target.
C11_TargetCheckedBeforeDispatch ==
    (Simulated /\ NamesSupportedScenario(result.arg.scenario_type)) =>
        LET t == result.arg.target_component_id
        IN  /\ ~HasNode(graph, t) =>
                  /\ result.raised = TargetNotFound(t)
                  /\ result.value = NoValue
                  /\ result.calls = <<>>
            /\ result.calls # <<>> => HasNode(graph, t)
            /\ result.raised.exc = None =>
                  /\ HasNode(graph, t)
                  /\ result.value.affected_components # <<>>
                  /\ t \in SeqToSet(result.value.affected_components)

\* C11 witness: on the single-node architecture, "NODE_COMPROMISE" on the
\* target "b", which is no node, raised target-not-found naming "b".
C11_Witness ==
    /\ Simulated
    /\ architecture = SingleArch
    /\ result.arg.scenario_type = upper(node_compromise)
    /\ result.arg.target_component_id = "b"
    /\ result.raised = TargetNotFound("b")
    /\ result.calls = <<>>

(***************************************************************************)
(* Properties of the scenario result (SpecResult; C13 under SpecScale,     *)
(* on graphs of many nodes).                                               *)
(***************************************************************************)
Target == result.arg.target_component_id

\* The affected set stated without the traversal.
AffectedSet == {Target} \cup ForwardReachable(graph, Target)

\* C12: in every result of run_simulation("node_compromise", t) baseline_score
\* is 100.0, the score of the empty set; compromised_score is the score of
\* propagate_compromise(t), the share of the nodes outside the affected set;
\* score_delta is compromised_score - baseline_score and is <= 0.
C12_ScoresOfResult ==
    Returned("run_simulation") =>
        LET v == result.value
            N == number_of_nodes(graph)
        IN  /\ v.baseline_score = 10000
            /\ v.baseline_score = calculate_mission_score(graph, {})
            /\ v.compromised_score =
                   calculate_mission_score(graph, propagate_compromise(graph, Target))
            /\ v.compromised_score = RoundDiv((N - Cardinality(AffectedSet)) * 10000, N)
            /\ v.score_delta = v.compromised_score - v.baseline_score
            /\ v.score_delta <= 0

\* C12 witness: on the chain a -> b -> c the target b gave 100.0, 33.33 and
\* -66.67.
C12_Witness ==
    /\ Returned("run_simulation")
    /\ architecture = LinearArch
    /\ Target = "b"
    /\ result.value.baseline_score = 10000
    /\ result.value.compromised_score = 3333
    /\ result.value.score_delta = -6667

PathSubjects ==
    LET lines == SelectSeq(result.value.attack_path,
                           LAMBDA l : l.kind # "mission objective degraded")
    IN  [i \in 1..Len(lines) |-> lines[i].node]

\* C14 as stated: affected_components is the target followed by the other
\* affected components in the order the breadth-first propagation discovers
\* them.
C14_Original ==
    Returned("run_simulation") =>
        /\ result.value.affected_components[1] = Target
        /\ result.value.affected_components = PathSubjects

\* C14 amended: affected_components lists every member of
\* propagate_compromise(target) exactly once, in the order in which the
\* process iterates that set, which need not put the target first nor follow
\* the discovery order.
C14_AffectedListedInSetOrder ==
    Returned("run_simulation") =>
        /\ NoDuplicates(result.value.affected_components)
        /\ SeqToSet(result.value.affected_components) = AffectedSet
        /\ result.value.affected_components =
               SelectSeq(setOrder, LAMBDA x : x \in AffectedSet)

\* C14 witness: on the chain a -> b -> c, in a process that iterates c, b, a,
\* the compromise of a listed <<c, b, a>>, the target last.
C14_Witness ==
    /\ Returned("run_simulation")
    /\ architecture = LinearArch
    /\ Target = "a"
    /\ setOrder = <<"c", "b", "a">>
    /\ result.value.affected_components = <<"c", "b", "a">>
    /\ PathSubjects = <<"a", "b", "c">>

\* The display name the architecture gives the component with an ID.
DisplayName(id) ==
    LET i == CHOOSE i \in 1..Len(architecture.components) :
                 /\ architecture.components[i].id = id
                 /\ \A j \in (i + 1)..Len(architecture.components) :
                       architecture.components[j].id # id
    IN  architecture.components[i].name

\* C15: affected_component_names is parallel to affected_components: the two
\* lists have the same length, no ID is listed twice, and the i-th name is the
\* display name of the component whose ID is the i-th entry.
C15_NamesParallelToIds ==
    Returned("run_simulation") =>
        LET ids == result.value.affected_components
            names == result.value.affected_component_names
        IN  /\ Len(names) = Len(ids)
            /\ NoDuplicates(ids)
            /\ \A i \in 1..Len(ids) : names[i] = DisplayName(ids[i])

\* C15 witness: in a process that iterates b, c, a, the compromise of a on the
\* chain listed <<b, c, a>> and the names of b, c, a in that order.
C15_Witness ==
    /\ Returned("run_simulation")
    /\ architecture = LinearArch
    /\ Target = "a"
    /\ result.value.affected_components = <<"b", "c", "a">>
    /\ result.value.affected_component_names = <<"Node-B", "Node-C", "Node-A">>

(***************************************************************************)
(* Properties of the criticality ranker (SpecRank).                        *)
(***************************************************************************)
\* The ranking in the state: what rank_criticality returned, or the
\* criticality_ranking of what run_simulation returned.
Ranked == Returned("rank_criticality") \/ Returned("run_simulation")
Ranking ==
    IF result.op = "rank_criticality" THEN result.value
    ELSE result.value.criticality_ranking

\* The planner-assigned criticality of a component and its distinct direct
\* predecessors, read from the architecture.
Criticality(id) ==
    LET i == CHOOSE i \in 1..Len(architecture.components) :
                 architecture.components[i].id = id
    IN  architecture.components[i].criticality
Predecessors(id) ==
    {architecture.flows[i].source :
        i \in {j \in 1..Len(architecture.flows) : architecture.flows[j].target = id}}

\* C16: the criticality_score of every entry is the component's
\* planner-assigned criticality plus its in-degree, the number of its
\* distinct direct predecessors: flows repeated over a pair count once.
C16_ScoreIsCriticalityPlusInDegree ==
    Ranked =>
        \A i \in 1..Len(Ranking) :
            Ranking[i].criticality_score =
                Criticality(Ranking[i].component_id)
                    + Cardinality(Predecessors(Ranking[i].component_id))

\* C16 witness: with the flow a -> b given twice, b (criticality 8) is ranked
\* with 9.
C16_Witness ==
    /\ Returned("rank_criticality")
    /\ Len(architecture.flows) = 2
    /\ \A i \in 1..2 : architecture.flows[i].source = "a" /\ architecture.flows[i].target = "b"
    /\ \E i \in 1..Len(Ranking) :
          Ranking[i].component_id = "b" /\ Ranking[i].criticality_score = 9

\* The descendant count of a node: the nodes forward-reachable from it, itself
\* excluded.
DescendantCount(id) == Cardinality(ForwardReachable(graph, id) \ {id})

\* C17: the ranking is sorted descending by (criticality_score, descendant
\* count): the score never rises along the list, and of two adjacent entries
\* with the same score the earlier has at least the descendant count of the
\* later; the order is the same whatever the affected set is.
C17_SortedByScoreThenDescendants ==
    Ranked =>
        /\ \A i \in 1..(Len(Ranking) - 1) :
              /\ Ranking[i].criticality_score >= Ranking[i + 1].criticality_score
              /\ Ranking[i].criticality_score = Ranking[i + 1].criticality_score =>
                    DescendantCount(Ranking[i].component_id)
                        >= DescendantCount(Ranking[i + 1].component_id)
        /\ result.op = "rank_criticality" =>
              LET other == rank_criticality(graph, Some({"b"}), result.arg.top_n)
              IN  /\ Len(other) = Len(Ranking)
                  /\ \A i \in 1..Len(Ranking) :
                        other[i].component_id = Ranking[i].component_id

\* C17 witness: with the flows c -> a and b -> c, a and b both score 8; b,
\* declared after a, has two descendants and a has none, and the ranking is
\* c, b, a.
C17_Witness ==
    /\ Returned("rank_criticality")
    /\ architecture.components = <<CompA, CompB, CompC>>
    /\ Edges(graph) = {<<"c", "a">>, <<"b", "c">>}
    /\ Len(Ranking) = 3
    /\ Ranking[2].component_id = "b" /\ Ranking[2].criticality_score = 8
    /\ Ranking[3].component_id = "a" /\ Ranking[3].criticality_score = 8

\* C18: for a graph of N nodes and a top_n >= 0, rank_criticality returns
\* min(top_n, N) entries, each of another component, and they are the first
\* min(top_n, N) entries of the ranking of all N nodes; with the default
\* top_n, a graph of fewer nodes than that yields all N.
C18_TopNEntries ==
    (Returned("rank_criticality") /\ result.arg.top_n >= 0) =>
        LET N == number_of_nodes(graph)
            k == Min(result.arg.top_n, N)
            full == rank_criticality(graph, result.arg.affected_ids, N)
        IN  /\ Len(result.value) = k
            /\ NoDuplicates([i \in 1..Len(result.value) |-> result.value[i].component_id])
            /\ Len(full) = N
            /\ result.value = SubSeq(full, 1, k)
            /\ (result.arg.top_n = DefaultTopN /\ N < DefaultTopN) => Len(result.value) = N

\* C18 witness: top_n = 2 on three components without flows returned c and b,
\* the two that were declared last.
C18_Witness ==
    /\ Returned("rank_criticality")
    /\ architecture.components = <<CompA, CompB, CompC>>
    /\ result.arg.top_n = 2
    /\ Len(result.value) = 2
    /\ result.value[1].component_id = "c"
    /\ result.value[2].component_id = "b"

\* C19: the affected flag of an entry of rank_criticality(affected_ids) is
\* true exactly when the entry's component ID is in affected_ids, and false
\* throughout when affected_ids is absent or empty; in a result of
\* run_simulation it is true exactly for the members of
\* propagate_compromise(target).
C19_AffectedFlagIsMembership ==
    /\ Returned("rank_criticality") =>
          \A i \in 1..Len(result.value) :
              result.value[i].affected <=>
                  /\ result.arg.affected_ids.given
                  /\ result.value[i].component_id \in result.arg.affected_ids.ids
    /\ Returned("run_simulation") =>
          \A i \in 1..Len(Ranking) :
              Ranking[i].affected <=> Ranking[i].component_id \in AffectedSet

\* C19 witness: rank_criticality({b, c}) on three nodes flagged b and c and
\* left a unflagged.
C19_Witness ==
    /\ Returned("rank_criticality")
    /\ result.arg.affected_ids = Some({"b", "c"})
    /\ Len(result.value) = 3
    /\ \A i \in 1..3 : result.value[i].affected <=> result.value[i].component_id # "a"

(***************************************************************************)
(* Properties of the attack path (SpecResult).                             *)
(***************************************************************************)
\* The least number of edges on a forward path from v to w, 0 for v itself.
Hops(g, v, w) ==
    IF v = w THEN 0
    ELSE LET paths == {p \in SeqsUpTo(Nodes(g), number_of_nodes(g)) :
                          ForwardPath(g, p) /\ p[1] = v /\ p[Len(p)] = w}
             p == CHOOSE p \in paths : \A q \in paths : Len(p) <= Len(q)
         IN  Len(p) - 1

\* C20: the first line of the attack path is the direct compromise of the
\* target; after it, every affected component other than the target is the
\* subject of exactly one propagation step and the target of none, on cyclic
\* graphs too; each step names a direct predecessor one hop nearer the target
\* as its source, and the steps come in non-decreasing hop distance from the
\* target.
C20_AttackPathIsBreadthFirst ==
    Returned("run_simulation") =>
        LET path == result.value.attack_path
            steps == SelectSeq(path, LAMBDA l : l.kind = "receives corrupted data")
        IN  /\ path[1].kind = "directly compromised"
            /\ path[1].node = Target
            /\ path[1].name = DisplayName(Target)
            /\ \A i \in 2..Len(path) : path[i].kind # "directly compromised"
            /\ \A i \in 1..Len(path) : path[i].step = i
            /\ \A w \in AffectedSet \ {Target} :
                  Cardinality({i \in 1..Len(steps) : steps[i].node = w}) = 1
            /\ \A i \in 1..Len(steps) :
                  /\ steps[i].node \in AffectedSet \ {Target}
                  /\ <<steps[i].source, steps[i].node>> \in Edges(graph)
                  /\ Hops(graph, Target, steps[i].source) + 1
                         = Hops(graph, Target, steps[i].node)
            /\ \A i \in 1..(Len(steps) - 1) :
                  Hops(graph, Target, steps[i].node) <= Hops(graph, Target, steps[i + 1].node)

\* C20 witness: on the cycle a -> b -> c -> a the compromise of a gave the
\* direct line for a, one step for b from a, one step for c from b, and the
\* summary line.
C20_Witness ==
    /\ Returned("run_simulation")
    /\ architecture = CycleArch
    /\ Target = "a"
    /\ Len(result.value.attack_path) = 4
    /\ result.value.attack_path[2].node = "b"
    /\ result.value.attack_path[2].source = "a"
    /\ result.value.attack_path[3].node = "c"
    /\ result.value.attack_path[3].source = "b"
    /\ result.value.attack_path[4].kind = "mission objective degraded"

\* C21: the attack path of a result ends with a summary line exactly when
\* more than one component is affected, and that line states the number of
\* affected components; the path has 1 line when only the target is affected
\* and |affected| + 1 lines otherwise, numbered consecutively from 1.
C21_SummaryStepAndLength ==
    Returned("run_simulation") =>
        LET path == result.value.attack_path
            last == path[Len(path)]
            n == Cardinality(AffectedSet)
        IN  /\ Len(path) >= 1
            /\ (last.kind = "mission objective degraded") <=> (n > 1)
            /\ \A i \in 1..(Len(path) - 1) : path[i].kind # "mission objective degraded"
            /\ n > 1 => last.count = n
            /\ Len(path) = IF n = 1 THEN 1 ELSE n + 1
            /\ \A i \in 1..Len(path) : path[i].step = i
            /\ n = Len(result.value.affected_components)

\* C21 witness: on the chain a -> b -> c the compromise of a affected three
\* components and gave four lines, the last one the summary of 3 components.
C21_Witness ==
    /\ Returned("run_simulation")
    /\ architecture = LinearArch
    /\ Target = "a"
    /\ Len(result.value.affected_components) = 3
    /\ Len(result.value.attack_path) = 4
    /\ result.value.attack_path[4] = SummaryStep(4, 3)

(***************************************************************************)
(* The end-to-end scenario on the chain A -> B -> C (SpecResult).          *)
(***************************************************************************)
\* C22: on the architecture of the components A (criticality 7), B (8) and
\* C (9) with the flows A -> B and B -> C, the node compromise of A yields
\* baseline_score 100.0, compromised_score 0.0, score_delta -100.0, exactly
\* A, B and C as affected components, an attack path of at least 3 lines and
\* a criticality ranking of 3 entries; the compromise of B yields
\* compromised_score 33.33 and that of C 66.67.
C22_LinearChainEndToEnd ==
    (Returned("run_simulation") /\ architecture = LinearArch
        /\ result.arg.scenario_type = node_compromise) =>
        /\ Target = CompA.id =>
              /\ result.value.baseline_score = 10000
              /\ result.value.compromised_score = 0
              /\ result.value.score_delta = -10000
              /\ SeqToSet(result.value.affected_components) = {CompA.id, CompB.id, CompC.id}
              /\ Len(result.value.affected_components) = 3
              /\ Len(result.value.attack_path) >= 3
              /\ Len(result.value.criticality_ranking) = 3
        /\ Target = CompB.id =>
              /\ result.value.compromised_score = 3333
              /\ SeqToSet(result.value.affected_components) = {CompB.id, CompC.id}
        /\ Target = CompC.id =>
              /\ result.value.compromised_score = 6667
              /\ SeqToSet(result.value.affected_components) = {CompC.id}

\* C22 witness: the chain was built with the criticalities 7, 8 and 9 and the
\* compromise of its leaf C returned a score of 66.67.
C22_Witness ==
    /\ Returned("run_simulation")
    /\ architecture = LinearArch
    /\ [n \in Nodes(graph) |-> graph.attrs[n].criticality]
           = (CompA.id :> 7) @@ (CompB.id :> 8) @@ (CompC.id :> 9)
    /\ Edges(graph) = {<<CompA.id, CompB.id>>, <<CompB.id, CompC.id>>}
    /\ Target = CompC.id
    /\ result.value.compromised_score = 6667
    /\ result.value.baseline_score = 10000

(***************************************************************************)
(* Properties of the HTTP boundary (SpecHttp).                             *)
(***************************************************************************)
Served == result.op = "simulate_architecture"

\* The architecture that was loaded does not construct.
InvalidArchitecture == Len(architecture.components) = 0 \/ DanglingAt # {}

\* The request names no supported scenario or no component of the architecture.
InvalidRequest ==
    \/ ~NamesSupportedScenario(result.arg.scenario_type)
    \/ result.arg.target_component_id \notin Declared

\* An exception that is no SimulatorError came out of the try block: one on
\* entry to the constructor, or one on entry to run_simulation when the
\* constructor had not raised.
UnexpectedException ==
    \/ result.arg.fault.at = "__init__"
    \/ result.arg.fault.at = "run_simulation" /\ ~InvalidArchitecture

\* C23: simulate_architecture answers every engine validation failure (a
\* SimulatorError of the constructor or of run_simulation: empty architecture,
\* dangling flow, unknown scenario, target not found) with status 422, every
\* other exception with status 500 and nothing but the fixed generic message,
\* and with 200 only when run_simulation returned a result, which is the body.
C23_ErrorsMappedAtHttpBoundary ==
    Served =>
        LET r == result.response
        IN  /\ r.status \in {200, 422, 500}
            /\ (~UnexpectedException /\ (InvalidArchitecture \/ InvalidRequest)) =>
                   /\ r.status = 422
                   /\ r.detail.exc = "SimulatorError"
                   /\ r.detail.kind =
                         IF Len(architecture.components) = 0 THEN "empty architecture"
                         ELSE IF DanglingAt # {} THEN DanglingError.kind
                         ELSE IF ~NamesSupportedScenario(result.arg.scenario_type)
                         THEN "unknown scenario"
                         ELSE "target not found"
            /\ UnexpectedException =>
                   r = [status |-> 500, detail |-> UnexpectedErrorDetail]
            /\ r.status = 200 =>
                   /\ ~UnexpectedException /\ ~InvalidArchitecture /\ ~InvalidRequest
                   /\ DOMAIN r = {"status", "body"}
                   /\ r.body.target_component_id = result.arg.target_component_id
                   /\ r.body.scenario_type = node_compromise
                   /\ r.body.architecture_id = architecture.id
                   /\ SeqToSet(r.body.affected_components)
                         = {result.arg.target_component_id}
                           \cup ForwardReachable(construct(architecture).graph,
                                                 result.arg.target_component_id)

\* C23 witness: the architecture loaded has a flow to the undeclared "c"; the
\* request for the compromise of "a" was answered with 422 and the
\* constructor's unknown-target error.
C23_Witness ==
    /\ Served
    /\ architecture = GhostArch
    /\ result.arg.fault = NoFault
    /\ result.arg.scenario_type = node_compromise
    /\ result.arg.target_component_id = "a"
    /\ result.response.status = 422
    /\ result.response.detail = SimulatorError("unknown target", "f2", "c")

(***************************************************************************)
(* Frame and history properties of a constructed simulator (SpecFrame).    *)
(***************************************************************************)
\* C24: once the simulator is constructed, no call of run_simulation,
\* propagate_compromise, calculate_mission_score, rank_criticality,
\* get_component_metadata, node_count or edge_count, returning or raising,
\* changes the graph's nodes, edges or attributes or the stored architecture:
\* in every later state the graph is the one the constructor built.
C24_GraphBuiltOnceNeverChanged ==
    /\ [](sim = "ready" => graph = build_graph(architecture).graph)
    /\ [][sim = "ready" =>
             /\ sim' = "ready"
             /\ graph' = graph
             /\ architecture' = architecture]_vars

\* C24 witness: on the chain, a call of run_simulation that raised (unknown
\* scenario) left the graph as the constructor built it, with its 3 nodes and
\* 2 edges.
C24_Witness ==
    /\ sim = "ready"
    /\ architecture = LinearArch
    /\ result.op = "run_simulation"
    /\ result.raised = UnknownScenario(link_degradation)
    /\ Nodes(graph) = CompIds
    /\ Edges(graph) = {<<"a", "b">>, <<"b", "c">>}
    /\ graph = construct(LinearArch).graph

(***************************************************************************)
(* Properties of the edges of the graph (SpecBuild).                       *)
(***************************************************************************)
\* C25: for every architecture that builds successfully the graph has exactly
\* one edge per data flow: edge_count() is the number of flows of the
\* architecture.
C25_Original ==
    (sim = "ready" /\ result.op = "edge_count") =>
        result.value = Len(architecture.flows)

\* The positions of the flows of the architecture over the ordered pair e.
FlowsOver(e) ==
    {i \in 1..Len(architecture.flows) :
        <<architecture.flows[i].source, architecture.flows[i].target>> = e}

PathPosition(id) ==
    IF \E i \in 1..Len(PathSubjects) : PathSubjects[i] = id
    THEN CHOOSE i \in 1..Len(PathSubjects) : PathSubjects[i] = id
    ELSE 0

\* C27: every propagation step of an attack path attributes the newly
\* compromised node s to the node c that discovered it: the graph has the
\* edge c -> s, c is affected, c is the target or the subject of an earlier
\* step, and no component earlier in the path than c has an edge to s.
C27_StepNamesItsDiscoverer ==
    Returned("run_simulation") =>
        LET path == result.value.attack_path
        IN  \A i \in 1..Len(path) :
               path[i].kind = "receives corrupted data" =>
                  LET s == path[i].node
                      c == path[i].source
                  IN  /\ <<c, s>> \in Edges(graph)
                      /\ c \in AffectedSet
                      /\ c \in SeqToSet(result.value.affected_components)
                      /\ path[i].from = DisplayName(c)
                      /\ \/ c = Target
                         \/ \E j \in 2..(i - 1) :
                               /\ path[j].kind = "receives corrupted data"
                               /\ path[j].node = c
                      /\ PathPosition(c) \in 1..(i - 1)
                      /\ \A d \in Nodes(graph) :
                            (PathPosition(d) \in 1..(PathPosition(c) - 1))
                               => <<d, s>> \notin Edges(graph)

\* C27 witness: on the triangle a -> b, a -> c, b -> c the compromise of a
\* gave the step for b from a and then the step for c, which both a and b
\* lead to, from a, the first of the two in the path.
C27_Witness ==
    /\ Returned("run_simulation")
    /\ architecture = TriangleArch
    /\ Target = "a"
    /\ result.value.attack_path[2].node = "b"
    /\ result.value.attack_path[2].source = "a"
    /\ result.value.attack_path[3].node = "c"
    /\ result.value.attack_path[3].source = "a"
    /\ <<"b", "c">> \in Edges(graph)

(***************************************************************************)
(* Relations between the results for different targets (SpecResult).       *)
(***************************************************************************)
\* What run_simulation("node_compromise", v) returns on this simulator.
ResultFor(v) == run_simulation(graph, architecture, setOrder, node_compromise, v).value

\* C28: propagation is monotone along edges: for nodes u and v with v in
\* propagate_compromise(u), propagate_compromise(v) is a subset of
\* propagate_compromise(u), and the compromised_score of attacking u is less
\* than or equal to that of attacking v.
C28_PropagationMonotone ==
    Returned("run_simulation") =>
        LET u == Target
            affected_u == SeqToSet(result.value.affected_components)
        IN  /\ affected_u = propagate_compromise(graph, u)
            /\ \A v \in propagate_compromise(graph, u) :
                  /\ HasNode(graph, v)
                  /\ propagate_compromise(graph, v) \subseteq propagate_compromise(graph, u)
                  /\ SeqToSet(ResultFor(v).affected_components) \subseteq affected_u
                  /\ result.value.compromised_score <= ResultFor(v).compromised_score

\* C28 witness: on the chain a -> b -> c the compromise of a, upstream of b,
\* scored 0.0, and the compromise of b scores 33.33 with {b, c} affected.
C28_Witness ==
    /\ Returned("run_simulation")
    /\ architecture = LinearArch
    /\ Target = "a"
    /\ "b" \in SeqToSet(result.value.affected_components)
    /\ propagate_compromise(graph, "b") = {"b", "c"}
    /\ result.value.compromised_score = 0
    /\ ResultFor("b").compromised_score = 3333

\* A ranking with its affected flags set aside.
WithoutFlags(ranking) ==
    [i \in 1..Len(ranking) |->
        [component_id |-> ranking[i].component_id,
         component_name |-> ranking[i].component_name,
         component_type |-> ranking[i].component_type,
         criticality_score |-> ranking[i].criticality_score]]

\* C29: the criticality ranking of a run_simulation result depends on the
\* component attacked through its affected flags only: for any two valid
\* targets on one simulator the two rankings hold the same components in the
\* same order with the same criticality_score, as does rank_criticality()
\* called without an affected set; the flags are those of the affected set of
\* the target.
C29_RankingIndependentOfTarget ==
    Returned("run_simulation") =>
        LET ranking == result.value.criticality_ranking
            plain == rank_criticality(graph, Absent, DefaultTopN)
        IN  /\ WithoutFlags(ranking) = WithoutFlags(plain)
            /\ \A i \in 1..Len(plain) : ~plain[i].affected
            /\ \A i \in 1..Len(ranking) :
                  ranking[i].affected <=> ranking[i].component_id \in AffectedSet
            /\ \A v \in Nodes(graph) :
                  WithoutFlags(ResultFor(v).criticality_ranking) = WithoutFlags(ranking)

\* C29 witness: on a -> b with c apart, the compromise of c returned a
\* ranking of the three components that the compromise of a returns too,
\* entry for entry, with other flags.
C29_Witness ==
    /\ Returned("run_simulation")
    /\ architecture.components = <<CompA, CompB, CompC>>
    /\ Edges(graph) = {<<"a", "b">>}
    /\ Target = "c"
    /\ Len(result.value.criticality_ranking) = 3
    /\ WithoutFlags(ResultFor("a").criticality_ranking)
          = WithoutFlags(result.value.criticality_ranking)
    /\ ResultFor("a").criticality_ranking # result.value.criticality_ranking

\* C30: run_simulation is history-independent: whatever calls, returning or
\* raising, were made on the instance before, the outcome of
\* run_simulation(s, t) (the scores, the affected components, the attack path,
\* the ranking, or the error) is the outcome on a simulator freshly
\* constructed for the same architecture.
C30_RunSimulationHistoryIndependent ==
    (sim = "ready" /\ result.op = "run_simulation") =>
        LET fresh == construct(architecture)
            again == run_simulation(fresh.graph, architecture, setOrder,
                                    result.arg.scenario_type, result.arg.target_component_id)
        IN  /\ fresh.error = NoError
            /\ result.raised = again.raised
            /\ result.value = again.value
            /\ result.raised.exc = None =>
                  /\ result.value.baseline_score = again.value.baseline_score
                  /\ result.value.compromised_score = again.value.compromised_score
                  /\ result.value.score_delta = again.value.score_delta
                  /\ SeqToSet(result.value.affected_components)
                        = SeqToSet(again.value.affected_components)
                  /\ result.value.attack_path = again.value.attack_path
                  /\ result.value.criticality_ranking = again.value.criticality_ranking

\* C30 witness: on the cycle a -> b -> c -> a a call of run_simulation on b
\* returned all three components as affected and a score of 0.0, as a fresh
\* simulator does.
C30_Witness ==
    /\ sim = "ready"
    /\ architecture = CycleArch
    /\ result.op = "run_simulation"
    /\ result.arg.target_component_id = "b"
    /\ result.raised.exc = None
    /\ result.value.compromised_score = 0
    /\ SeqToSet(result.value.affected_components) = CompIds
    /\ result.value
          = run_simulation(construct(CycleArch).graph, CycleArch, setOrder,
                           result.arg.scenario_type, "b").value

====
